---- MODULE Spec2Model ----
(***************************************************************************)
(* State-machine model of streamlit_app.py: the JSON-backed report store   *)
(* of documentation_page, the CSV period comparison of compare_csv_data    *)
(* with generate_comparison_summary, and the event table built by          *)
(* fetch_event_data.                                                        *)
(***************************************************************************)
EXTENDS Integers, Sequences, FiniteSets, TLC

VARIABLES
    file,           \* reports.json on disk
    session_state,  \* per browser session: st.session_state ('reports' key)
    screen,         \* per session: what the last script run showed
    widgets,        \* per session: buttons rendered by the last script run
    last_run,       \* the widget event that started the latest script run
    file1, file2,   \* compare_csv_data: the two uploaded CSV files
    merged_df,      \* compare_csv_data: the comparison rows, as displayed
    overall,        \* compare_csv_data: the "Overall Summary" numbers
    analysis,       \* compare_csv_data: the per-row narrative summaries
    compare_screen, \* compare_csv_data: what the page shows
    row,            \* generate_comparison_summary: its argument
    summary,        \* generate_comparison_summary: its result
    names_data,     \* fetch_event_data: the decoded API response
    df,             \* fetch_event_data: the returned table
    fetch_screen    \* fetch_event_data: returned / error shown

storeVars == <<file, session_state, screen, widgets, last_run>>
compareVars == <<file1, file2, merged_df, overall, analysis, compare_screen>>
summaryVars == <<row, summary>>
fetchVars == <<names_data, df, fetch_screen>>
vars == <<storeVars, compareVars, summaryVars, fetchVars>>

----------------------------------------------------------------------------
(* Bounds *)

MaxReports == 3
MaxRaceReports == 2
MaxRows == 2
MaxCount == 150
MaxEvents == 3

----------------------------------------------------------------------------
(* The parts of the state a specification does not exercise *)

\* A float64 result: a finite ratio num/den (den > 0), or inf, -inf, nan.
\* For integer counts the rounded value of (c2 - c1) / c1 * 100 compares
\* with 0, 10, 30 and 50 as the exact ratio does, so the ratio is kept exact.
Finite(n, d) == [kind |-> "finite", num |-> n, den |-> d]
Inf == [kind |-> "inf", num |-> 1, den |-> 0]
NegInf == [kind |-> "-inf", num |-> -1, den |-> 0]
NaN == [kind |-> "nan", num |-> 0, den |-> 0]

NotUploaded == [uploaded |-> FALSE, columns |-> FALSE, rows |-> <<>>]
NoOverall == [total_change |-> NaN, increased |-> 0, decreased |-> 0, unchanged |-> 0]
NoRow == [tag |-> "", period1 |-> 0, period2 |-> 0, percent_change |-> NaN]
NoSummary ==
    [trend |-> "", magnitude |-> "", period1 |-> 0, period2 |-> 0,
     percent_change |-> NaN]

CompareOutputsIdle ==
    /\ merged_df = <<>>
    /\ overall = NoOverall
    /\ analysis = <<>>
    /\ compare_screen = "idle"

CompareIdle ==
    /\ file1 = NotUploaded
    /\ file2 = NotUploaded
    /\ CompareOutputsIdle

SummaryIdle ==
    /\ row = NoRow
    /\ summary = NoSummary

FetchIdle ==
    /\ names_data = [ok |-> FALSE, body |-> <<>>]
    /\ df = <<>>
    /\ fetch_screen = "idle"

StoreIdle ==
    /\ file = [kind |-> "absent", text |-> <<>>]
    /\ session_state = [s \in {"A", "B"} |-> [has |-> FALSE, reports |-> <<>>]]
    /\ screen = [s \in {"A", "B"} |-> [kind |-> "blank", text |-> ""]]
    /\ widgets = [s \in {"A", "B"} |-> [save |-> FALSE, delete |-> 0]]
    /\ last_run = [session |-> "", button |-> "none", idx |-> 0]

----------------------------------------------------------------------------
(* Report store: values *)

Sessions == {"A", "B"}

\* A string is modelled as the sequence of its characters, so that
\* truthiness (non-empty) and whitespace-only are different tests.
Titles == { <<>>, <<" ">>, <<"Q", "1">>, <<"Q", "2">> }

ReportKeys ==
    <<"date", "title", "findings", "observations", "recommendations",
      "conclusion", "screenshots">>

Screenshots == { << [name |-> "chart.png", data |-> "aGk="] >> }

\* The widget values of one run of the form (lines 270-306).
Forms ==
    [date : {"2024-01-01"}, title : Titles, findings : {"f"},
     observations : {"o"}, recommendations : {"r"}, conclusion : {"c"},
     screenshots : Screenshots]

RaceForms ==
    { f \in Forms : f.title \in { <<"Q", "1">>, <<"Q", "2">> } }

\* new_report, lines 311-319
new_report(form) ==
    [date |-> form.date, title |-> form.title, findings |-> form.findings,
     observations |-> form.observations,
     recommendations |-> form.recommendations,
     conclusion |-> form.conclusion, screenshots |-> form.screenshots]

\* `if report_title:` -- Python truthiness of a str is non-emptiness.
title_provided(title) == Len(title) > 0

\* The document of the newest report alone.
json_dump_last(reports) ==
    IF reports = <<>> THEN <<>>
    ELSE << [k \in 1..Len(ReportKeys) |->
               <<ReportKeys[k], reports[Len(reports)][ReportKeys[k]]>>] >>

\* json.dump of a list of dicts: one object per report, its members in the
\* dict's insertion order, each a <<key, value>> pair.
json_dump(reports) ==
    [i \in 1..Len(reports) |->
        [k \in 1..Len(ReportKeys) |-> <<ReportKeys[k], reports[i][ReportKeys[k]]>>]]

Member(obj, key) ==
    LET p == CHOOSE k \in 1..Len(obj) : obj[k][1] = key IN obj[p][2]

\* json.load: the list of dicts the document denotes.
json_load(text) ==
    [i \in 1..Len(text) |->
        [date |-> Member(text[i], "date"), title |-> Member(text[i], "title"),
         findings |-> Member(text[i], "findings"),
         observations |-> Member(text[i], "observations"),
         recommendations |-> Member(text[i], "recommendations"),
         conclusion |-> Member(text[i], "conclusion"),
         screenshots |-> Member(text[i], "screenshots")]]

Absent == [kind |-> "absent", text |-> <<>>]
Corrupt == [kind |-> "corrupt", text |-> <<>>]
JsonFile(reports) == [kind |-> "json", text |-> json_dump(reports)]

\* load_reports, lines 247-253.  Only FileNotFoundError is caught: a file
\* that cannot be opened or does not parse raises out of the function.
load_reports(f, readable) ==
    IF f.kind = "absent" THEN [raised |-> "none", value |-> <<>>]
    ELSE IF ~readable THEN [raised |-> "PermissionError", value |-> <<>>]
    ELSE IF f.kind = "corrupt" THEN [raised |-> "JSONDecodeError", value |-> <<>>]
    ELSE [raised |-> "none", value |-> json_load(f.text)]

\* A save that appends the newest report to the document instead of
\* rewriting the whole list: what C1 rules out.
save_reports_incremental(f, reports, outcome) ==
    IF outcome = "open_fails" THEN [raised |-> "PermissionError", file |-> f]
    ELSE IF outcome = "write_fails" THEN [raised |-> "OSError", file |-> Corrupt]
    ELSE [raised |-> "none",
          file |-> [kind |-> "json",
                    text |-> (IF f.kind = "json" THEN f.text ELSE <<>>)
                             \o json_dump_last(reports)]]

\* save_reports, lines 255-258.  open(..., 'w') either fails and leaves the
\* file alone, or truncates it; a write that fails after the truncation
\* leaves a partial document.
save_reports(f, reports, outcome) ==
    IF outcome = "open_fails" THEN [raised |-> "PermissionError", file |-> f]
    ELSE IF outcome = "write_fails" THEN [raised |-> "OSError", file |-> Corrupt]
    ELSE [raised |-> "none", file |-> JsonFile(reports)]

SaveOutcomes == {"ok", "open_fails", "write_fails"}

\* A page that reads the file on every run: what C10 rules out.
init_session_state_reread(ss, f, readable) == load_reports(f, readable)

\* Lines 263-265: the file is read only while the session has no 'reports'.
init_session_state(ss, f, readable) ==
    IF ss.has THEN [raised |-> "none", value |-> ss.reports]
    ELSE load_reports(f, readable)

\* Whether open('reports.json', 'r') is permitted, for a run that opens it.
Readable(ss) == IF ss.has THEN {TRUE} ELSE BOOLEAN

\* list.pop() without the index: what C3 rules out.
pop_last(reports, idx) == SubSeq(reports, 1, Len(reports) - 1)

\* list.pop(idx), idx 0-based
pop(reports, idx) ==
    SubSeq(reports, 1, idx) \o SubSeq(reports, idx + 2, Len(reports))

Blank == [kind |-> "blank", text |-> ""]
Success == [kind |-> "success", text |-> "Report section saved successfully!"]
TitleError == [kind |-> "error", text |-> "Please provide at least a report title"]
Uncaught(exc) == [kind |-> "exception", text |-> exc]

Event(s, button, idx) == [session |-> s, button |-> button, idx |-> idx]

NoSession == [has |-> FALSE, reports |-> <<>>]
Loaded(reports) == [has |-> TRUE, reports |-> reports]

----------------------------------------------------------------------------
(* Report store: one action per script run of documentation_page *)

\* The run dies in load_reports at line 265: nothing below it is rendered.
LoadCrash(s, exc) ==
    /\ screen' = [screen EXCEPT ![s] = Uncaught(exc)]
    /\ widgets' = [widgets EXCEPT ![s] = [save |-> FALSE, delete |-> 0]]
    /\ UNCHANGED <<file, session_state>>

\* A run in which no button is pressed (the first access, or a rerun caused
\* by any other widget): lines 260-371.
OpenPage(s) ==
    /\ last_run' = Event(s, "none", 0)
    /\ UNCHANGED <<compareVars, summaryVars, fetchVars>>
    /\ \E readable \in Readable(session_state[s]) :
        LET r == init_session_state(session_state[s], file, readable) IN
        IF r.raised # "none" THEN LoadCrash(s, r.raised)
        ELSE /\ session_state' = [session_state EXCEPT ![s] = Loaded(r.value)]
             /\ screen' = [screen EXCEPT ![s] = Blank]
             /\ widgets' = [widgets EXCEPT
                               ![s] = [save |-> TRUE, delete |-> Len(r.value)]]
             /\ UNCHANGED file

\* The run in which "Save Report Section" is pressed: lines 309-324, then
\* the list of existing reports is rendered (lines 327-359).
SaveReportSection(s, form) ==
    /\ widgets[s].save
    /\ last_run' = Event(s, "save", 0)
    /\ UNCHANGED <<compareVars, summaryVars, fetchVars>>
    /\ \E readable \in Readable(session_state[s]), outcome \in SaveOutcomes :
        LET r == init_session_state(session_state[s], file, readable) IN
        IF r.raised # "none" THEN LoadCrash(s, r.raised)
        ELSE IF title_provided(form.title)
        THEN LET reports == Append(r.value, new_report(form))
                 w == save_reports(file, reports, outcome)
             IN /\ session_state' = [session_state EXCEPT ![s] = Loaded(reports)]
                /\ file' = w.file
                /\ IF w.raised = "none"
                   THEN /\ screen' = [screen EXCEPT ![s] = Success]
                        /\ widgets' = [widgets EXCEPT
                              ![s] = [save |-> TRUE, delete |-> Len(reports)]]
                   ELSE /\ screen' = [screen EXCEPT ![s] = Uncaught(w.raised)]
                        /\ widgets' = [widgets EXCEPT
                              ![s] = [save |-> TRUE, delete |-> 0]]
        ELSE /\ session_state' = [session_state EXCEPT ![s] = Loaded(r.value)]
             /\ screen' = [screen EXCEPT ![s] = TitleError]
             /\ widgets' = [widgets EXCEPT
                               ![s] = [save |-> TRUE, delete |-> Len(r.value)]]
             /\ UNCHANGED file

\* The run in which the "Delete Report" button of row idx is pressed:
\* lines 356-359.  st.rerun() starts a fresh run that renders the page.
DeleteReport(s, idx) ==
    /\ session_state[s].has
    /\ idx < widgets[s].delete
    /\ last_run' = Event(s, "delete", idx)
    /\ UNCHANGED <<compareVars, summaryVars, fetchVars>>
    /\ \E readable \in Readable(session_state[s]), outcome \in SaveOutcomes :
        LET r == init_session_state(session_state[s], file, readable) IN
        IF r.raised # "none" THEN LoadCrash(s, r.raised)
        ELSE /\ idx < Len(r.value)
             /\ LET reports == pop(r.value, idx)
                    w == save_reports(file, reports, outcome)
                IN /\ session_state' = [session_state EXCEPT ![s] = Loaded(reports)]
                   /\ file' = w.file
                   /\ IF w.raised = "none"
                      THEN /\ screen' = [screen EXCEPT ![s] = Blank]
                           /\ widgets' = [widgets EXCEPT
                                 ![s] = [save |-> TRUE, delete |-> Len(reports)]]
                      ELSE /\ screen' = [screen EXCEPT ![s] = Uncaught(w.raised)]
                           /\ widgets' = [widgets EXCEPT
                                 ![s] = [save |-> TRUE, delete |-> idx + 1]]

\* What reports.json may hold when the first session starts.
InitialFiles ==
    {Absent, Corrupt, JsonFile(<<>>)}
    \cup { JsonFile(<<new_report(f)>>) : f \in RaceForms }

InitStore ==
    /\ file \in InitialFiles
    /\ session_state = [s \in Sessions |-> NoSession]
    /\ screen = [s \in Sessions |-> Blank]
    /\ widgets = [s \in Sessions |-> [save |-> FALSE, delete |-> 0]]
    /\ last_run = Event("", "none", 0)
    /\ CompareIdle /\ SummaryIdle /\ FetchIdle

StoreSize(s) == Len(session_state[s].reports)

NextStore ==
    \/ OpenPage("A")
    \/ \E form \in Forms :
          /\ StoreSize("A") < MaxReports
          /\ SaveReportSection("A", form)
    \/ \E idx \in 0..MaxReports : DeleteReport("A", idx)

SpecStore == InitStore /\ [][NextStore]_vars

NextRace ==
    \E s \in Sessions :
        \/ OpenPage(s)
        \/ \E form \in RaceForms :
              /\ StoreSize(s) < MaxRaceReports
              /\ SaveReportSection(s, form)
        \/ \E idx \in 0..MaxRaceReports : DeleteReport(s, idx)

SpecRace == InitStore /\ [][NextRace]_vars

----------------------------------------------------------------------------
(* Period comparison: generate_comparison_summary and compare_csv_data *)

Abs(n) == IF n < 0 THEN -n ELSE n

\* d / base * 100 in float64 arithmetic (numpy: division by zero gives
\* inf, -inf or nan, it does not raise).
divide_times_100(d, base) ==
    IF base > 0 THEN Finite(100 * d, base)
    ELSE IF base < 0 THEN Finite(-100 * d, -base)
    ELSE IF d > 0 THEN Inf
    ELSE IF d < 0 THEN NegInf
    ELSE NaN

fillna_0(p) == IF p.kind = "nan" THEN Finite(0, 1) ELSE p

\* Comparisons of a float64 with a number; every comparison with nan is False.
Positive(p) == p.kind = "inf" \/ (p.kind = "finite" /\ p.num > 0)
Negative(p) == p.kind = "-inf" \/ (p.kind = "finite" /\ p.num < 0)
Zero(p) == p.kind = "finite" /\ p.num = 0

\* abs(p) < k, abs(p) <= k
AbsLess(p, k) == p.kind = "finite" /\ Abs(p.num) < k * p.den
AbsLessEq(p, k) == p.kind = "finite" /\ Abs(p.num) <= k * p.den

\* abs(p) >= abs(q) in the order of a descending sort, which puts nan last
AbsGreaterEq(p, q) ==
    \/ q.kind = "nan"
    \/ p.kind \in {"inf", "-inf"}
    \/ /\ p.kind = "finite"
       /\ q.kind = "finite"
       /\ Abs(p.num) * q.den >= Abs(q.num) * p.den

\* The bands with <= in place of <: what C8 rules out.
magnitude_closed(percent_change) ==
    IF AbsLessEq(percent_change, 10) THEN "slightly"
    ELSE IF AbsLessEq(percent_change, 30) THEN "moderately"
    ELSE IF AbsLessEq(percent_change, 50) THEN "significantly"
    ELSE "dramatically"

\* Lines 91-98
magnitude(percent_change) ==
    IF AbsLess(percent_change, 10) THEN "slightly"
    ELSE IF AbsLess(percent_change, 30) THEN "moderately"
    ELSE IF AbsLess(percent_change, 50) THEN "significantly"
    ELSE "dramatically"

\* Lines 77-105: the parts of the sentence the function formats.
generate_comparison_summary(r) ==
    LET period1_value == r.period1
        period2_value == r.period2
        percent_change == IF period1_value # 0
                          THEN divide_times_100(period2_value - period1_value,
                                                period1_value)
                          ELSE Inf
        abs_change == period2_value - period1_value
    IN [trend |-> IF abs_change = 0 THEN "remained stable"
                  ELSE IF abs_change > 0 THEN "increased" ELSE "decreased",
        magnitude |-> magnitude(percent_change),
        period1 |-> period1_value,
        period2 |-> period2_value,
        percent_change |-> percent_change]

Tags == {"Login", "Signup", "Checkout"}
\* An empty tag cell, which read_csv reads as NaN.
NaNTag == ""
CountValues == {0, 1}

CsvRows ==
    [tag : Tags, count : CountValues] \cup {[tag |-> NaNTag, count |-> 1]}

Csv(rows) == [uploaded |-> TRUE, columns |-> TRUE, rows |-> rows]
\* An uploaded file without the two required columns.
Malformed == [uploaded |-> TRUE, columns |-> FALSE, rows |-> <<>>]

Uploads ==
    {NotUploaded, Malformed}
    \cup { Csv(rows) : rows \in UNION { [1..n -> CsvRows] : n \in 0..MaxRows } }

RECURSIVE SumCounts(_, _)
SumCounts(rows, tag) ==
    IF rows = <<>> THEN 0
    ELSE (IF Head(rows).tag = tag THEN Head(rows).count ELSE 0)
         + SumCounts(Tail(rows), tag)

RECURSIVE LastCount(_, _)
LastCount(rows, tag) ==
    IF rows = <<>> THEN 0
    ELSE IF rows[Len(rows)].tag = tag THEN rows[Len(rows)].count
    ELSE LastCount(SubSeq(rows, 1, Len(rows) - 1), tag)

\* A grouping in which a later row of a tag overwrites the earlier ones:
\* what C7 rules out.
groupby_last(rows) ==
    [t \in {rows[i].tag : i \in 1..Len(rows)} \ {NaNTag} |-> LastCount(rows, t)]

\* Lines 123-124: groupby(tag)['Event Count'].sum(); groupby drops NaN keys.
groupby_sum(rows) ==
    [t \in {rows[i].tag : i \in 1..Len(rows)} \ {NaNTag} |-> SumCounts(rows, t)]

\* Lines 127-132: the outer merge on the tag, then fillna(0).
merge_outer(grouped1, grouped2) ==
    { [tag |-> t,
       period1 |-> IF t \in DOMAIN grouped1 THEN grouped1[t] ELSE 0,
       period2 |-> IF t \in DOMAIN grouped2 THEN grouped2[t] ELSE 0] :
        t \in (DOMAIN grouped1) \cup (DOMAIN grouped2) }

\* The percent change without fillna(0): 0/0 stays nan and the row falls
\* in none of the three categories, which C6 rules out.
percent_change_nan(period1, period2) ==
    divide_times_100(period2 - period1, period1)

\* Lines 135-136, for one row
percent_change(period1, period2) ==
    fillna_0(divide_times_100(period2 - period1, period1))

with_percent_change(rows) ==
    { [tag |-> r.tag, period1 |-> r.period1, period2 |-> r.period2,
       percent_change |-> percent_change(r.period1, r.period2)] : r \in rows }

\* Line 139: the orders sort_values('percent_change', key=abs,
\* ascending=False) may give.
sort_values(rows) ==
    { order \in [1..Cardinality(rows) -> rows] :
        /\ \A i, j \in DOMAIN order : i # j => order[i] # order[j]
        /\ \A i, j \in DOMAIN order :
              i < j => AbsGreaterEq(order[i].percent_change,
                                    order[j].percent_change) }

RECURSIVE SumColumn(_, _)
SumColumn(frame, col) ==
    IF frame = <<>> THEN 0 ELSE Head(frame)[col] + SumColumn(Tail(frame), col)

\* Lines 143-150
overall_summary(frame) ==
    [total_change |-> divide_times_100(SumColumn(frame, "period2")
                                         - SumColumn(frame, "period1"),
                                       SumColumn(frame, "period1")),
     increased |->
        Cardinality({i \in DOMAIN frame : Positive(frame[i].percent_change)}),
     decreased |->
        Cardinality({i \in DOMAIN frame : Negative(frame[i].percent_change)}),
     unchanged |->
        Cardinality({i \in DOMAIN frame : Zero(frame[i].percent_change)})]

\* One run of the comparison page, lines 107-245.
compare_csv_data ==
    /\ compare_screen = "idle"
    /\ UNCHANGED <<file1, file2, storeVars, summaryVars, fetchVars>>
    /\ IF ~(file1.uploaded /\ file2.uploaded)
       THEN /\ compare_screen' = "info"
            /\ UNCHANGED <<merged_df, overall, analysis>>
       ELSE IF ~(file1.columns /\ file2.columns)
       THEN /\ compare_screen' = "error"
            /\ UNCHANGED <<merged_df, overall, analysis>>
       ELSE LET grouped1 == groupby_sum(file1.rows)
                grouped2 == groupby_sum(file2.rows)
                merged == with_percent_change(merge_outer(grouped1, grouped2))
            IN \E sorted \in sort_values(merged) :
                  /\ merged_df' = sorted
                  /\ overall' = overall_summary(sorted)
                  /\ analysis' = [i \in DOMAIN sorted |->
                                    generate_comparison_summary(sorted[i])]
                  /\ compare_screen' = "shown"

InitCompare ==
    /\ file1 \in Uploads
    /\ file2 \in Uploads
    /\ CompareOutputsIdle
    /\ StoreIdle /\ SummaryIdle /\ FetchIdle

NextCompare == compare_csv_data

SpecCompare == InitCompare /\ [][NextCompare]_vars

\* generate_comparison_summary applied to one row of a merged frame (line 222).
Summarise ==
    /\ summary = NoSummary
    /\ summary' = generate_comparison_summary(row)
    /\ UNCHANGED <<row, storeVars, compareVars, fetchVars>>

InitSummary ==
    /\ \E period1, period2 \in 0..MaxCount :
          row = [tag |-> "Login", period1 |-> period1, period2 |-> period2,
                 percent_change |-> percent_change(period1, period2)]
    /\ summary = NoSummary
    /\ StoreIdle /\ CompareIdle /\ FetchIdle

NextSummary == Summarise

SpecSummary == InitSummary /\ [][NextSummary]_vars

----------------------------------------------------------------------------
(* Event table: fetch_event_data *)

\* A JSON value of a record of the response: a missing key, null, an
\* integer, or a string given as the sequence of its code points.
AbsentRaw == [type |-> "absent", int |-> 0, chars |-> <<>>]
NullRaw == [type |-> "null", int |-> 0, chars |-> <<>>]
IntRaw(n) == [type |-> "int", int |-> n, chars |-> <<>>]
StrRaw(chars) == [type |-> "str", int |-> 0, chars |-> chars]

RawCounts ==
    {AbsentRaw, NullRaw, IntRaw(1), IntRaw(5), IntRaw(20),
     StrRaw(<<53>>), StrRaw(<<50, 48>>), StrRaw(<<97, 98, 99>>)}

\* An entry of the response that is not a JSON object.
NonDict ==
    [is_dict |-> FALSE, label |-> "", nb_events |-> AbsentRaw,
     nb_events_with_value |-> AbsentRaw, sum_event_value |-> AbsentRaw]

Entries ==
    {NonDict}
    \cup [is_dict : {TRUE}, label : {"click"}, nb_events : RawCounts,
          nb_events_with_value : {AbsentRaw}, sum_event_value : {AbsentRaw}]

RequestFailed == [ok |-> FALSE, body |-> <<>>]

Responses ==
    {RequestFailed}
    \cup { [ok |-> TRUE, body |-> body] :
             body \in UNION { [1..n -> Entries] : n \in 0..MaxEvents } }

\* dict.get(key, 0)
get(raw) == IF raw.type = "absent" THEN IntRaw(0) ELSE raw

\* Lines 49-57
RECURSIVE events_data(_)
events_data(body) ==
    IF body = <<>> THEN <<>>
    ELSE LET event == Head(body) IN
         (IF event.is_dict
          THEN << [Event_Name |-> event.label,
                   Event_Count |-> get(event.nb_events),
                   Events_With_Value |-> get(event.nb_events_with_value),
                   Total_Event_Value |-> get(event.sum_event_value)] >>
          ELSE <<>>)
         \o events_data(Tail(body))

\* Python's a <= b on str: by code point, a proper prefix first.
RECURSIVE StrLessEq(_, _)
StrLessEq(a, b) ==
    IF a = <<>> THEN TRUE
    ELSE IF b = <<>> THEN FALSE
    ELSE IF a[1] < b[1] THEN TRUE
    ELSE IF a[1] > b[1] THEN FALSE
    ELSE StrLessEq(Tail(a), Tail(b))

\* a >= b between two values of one type
RawGreaterEq(a, b) ==
    IF a.type = "int" THEN a.int >= b.int ELSE StrLessEq(b.chars, a.chars)

NonNullTypes(frame) ==
    {frame[i].Event_Count.type : i \in DOMAIN frame} \ {"null"}

\* Line 63: the orders sort_values('Event Count', ascending=False) may give
\* on the column as constructed: nulls last, the rest descending.  The set
\* is used only when the column's values can be compared with each other.
sort_values_desc(frame) ==
    { [i \in DOMAIN frame |-> frame[perm[i]]] :
        perm \in { q \in [DOMAIN frame -> DOMAIN frame] :
                     /\ \A i, j \in DOMAIN frame : i # j => q[i] # q[j]
                     /\ \A i, j \in DOMAIN frame :
                          i < j =>
                            LET a == frame[q[i]].Event_Count
                                b == frame[q[j]].Event_Count
                            IN \/ b.type = "null"
                               \/ a.type # "null" /\ RawGreaterEq(a, b) } }

RECURSIVE DecimalValue(_)
DecimalValue(chars) ==
    IF chars = <<>> THEN 0
    ELSE 10 * DecimalValue(SubSeq(chars, 1, Len(chars) - 1))
         + (chars[Len(chars)] - 48)

IsNumeric(chars) ==
    /\ Len(chars) > 0
    /\ \A i \in DOMAIN chars : chars[i] \in 48..57

\* Line 68: pd.to_numeric(errors='coerce').fillna(0).astype(int), one cell
to_numeric_int(raw) ==
    IF raw.type = "int" THEN raw.int
    ELSE IF raw.type = "str" /\ IsNumeric(raw.chars) THEN DecimalValue(raw.chars)
    ELSE 0

coerce_numeric_columns(frame) ==
    [i \in DOMAIN frame |->
        [Event_Name |-> frame[i].Event_Name,
         Event_Count |-> to_numeric_int(frame[i].Event_Count),
         Events_With_Value |-> to_numeric_int(frame[i].Events_With_Value),
         Total_Event_Value |-> to_numeric_int(frame[i].Total_Event_Value)]]

\* One call of fetch_event_data, lines 25-75.  A failed request, and a sort
\* that has to compare a str with an int, raise into the except clause.
fetch_event_data ==
    /\ fetch_screen = "idle"
    /\ UNCHANGED <<names_data, storeVars, compareVars, summaryVars>>
    /\ IF ~names_data.ok
       THEN df' = <<>> /\ fetch_screen' = "error"
       ELSE LET frame == events_data(names_data.body) IN
            IF frame = <<>>
            THEN df' = <<>> /\ fetch_screen' = "returned"
            ELSE IF Cardinality(NonNullTypes(frame)) > 1
            THEN df' = <<>> /\ fetch_screen' = "error"
            ELSE \E sorted \in sort_values_desc(frame) :
                    /\ df' = coerce_numeric_columns(sorted)
                    /\ fetch_screen' = "returned"

InitFetch ==
    /\ names_data \in Responses
    /\ df = <<>>
    /\ fetch_screen = "idle"
    /\ StoreIdle /\ CompareIdle /\ SummaryIdle

NextFetch == fetch_event_data

SpecFetch == InitFetch /\ [][NextFetch]_vars

\* C9: the returned table is ordered by its coerced Event Count, largest
\* first.
C9_SortedByCoercedCount ==
    fetch_screen = "returned" =>
       \A i, j \in DOMAIN df : i < j => df[i].Event_Count >= df[j].Event_Count

----------------------------------------------------------------------------
(* Period comparison: properties *)

Shown == compare_screen = "shown"

TagsOf(upload) ==
    {upload.rows[i].tag : i \in DOMAIN upload.rows} \ {NaNTag}

RECURSIVE SumAt(_, _)
SumAt(rows, indices) ==
    IF indices = {} THEN 0
    ELSE LET i == CHOOSE k \in indices : TRUE
         IN rows[i].count + SumAt(rows, indices \ {i})

\* The sum of the counts of all rows of the upload that carry the tag.
TotalOf(upload, tag) ==
    SumAt(upload.rows, {i \in DOMAIN upload.rows : upload.rows[i].tag = tag})

Increased(r) == r.period2 - r.period1 > 0
Decreased(r) == r.period2 - r.period1 < 0
Unchanged(r) == r.period2 - r.period1 = 0

\* C5: for every row whose period-1 count is 0 the percent change is not a
\* finite number (so not zero either), both in the row's percent_change and
\* in generate_comparison_summary, and the trend follows the sign of
\* count2 - count1.
C5_ZeroBaseUndefined ==
    Shown =>
       \A i \in DOMAIN merged_df :
          merged_df[i].period1 = 0 =>
             /\ merged_df[i].percent_change.kind # "finite"
             /\ analysis[i].percent_change.kind # "finite"
             /\ analysis[i].trend = IF merged_df[i].period2 > 0
                                    THEN "increased" ELSE "remained stable"

\* C6: the increased, decreased and unchanged counts are the numbers of rows
\* with count2 - count1 > 0, < 0 and = 0, and they sum to the number of rows.
C6_CountsPartitionBySign ==
    Shown =>
       /\ overall.increased
             = Cardinality({i \in DOMAIN merged_df : Increased(merged_df[i])})
       /\ overall.decreased
             = Cardinality({i \in DOMAIN merged_df : Decreased(merged_df[i])})
       /\ overall.unchanged
             = Cardinality({i \in DOMAIN merged_df : Unchanged(merged_df[i])})
       /\ overall.increased + overall.decreased + overall.unchanged
             = Len(merged_df)

C6_Witness ==
    /\ Shown
    /\ overall.increased = 1
    /\ overall.decreased = 1
    /\ overall.unchanged = 1
    /\ \E i \in DOMAIN merged_df :
          merged_df[i].period1 = 0 /\ merged_df[i].period2 = 0

\* C7: one row per tag of the union of the two files' tags; each side's
\* count is the sum of that file's rows with the tag, 0 when it has none.
C7_OuterJoinOfSums ==
    Shown =>
       LET tags == TagsOf(file1) \cup TagsOf(file2) IN
       /\ {merged_df[i].tag : i \in DOMAIN merged_df} = tags
       /\ Len(merged_df) = Cardinality(tags)
       /\ \A i \in DOMAIN merged_df :
             /\ merged_df[i].period1 = TotalOf(file1, merged_df[i].tag)
             /\ merged_df[i].period2 = TotalOf(file2, merged_df[i].tag)

\* Login twice in the first file and not in the second, Checkout only in
\* the second.
C7_Witness ==
    /\ Shown
    /\ Len(file1.rows) = 2
    /\ \A i \in DOMAIN file1.rows : file1.rows[i] = [tag |-> "Login", count |-> 1]
    /\ TagsOf(file2) = {"Checkout"}
    /\ \E i \in DOMAIN merged_df :
          merged_df[i] = [tag |-> "Login", period1 |-> 2, period2 |-> 0,
                          percent_change |-> Finite(-200, 2)]

\* C8: with p the absolute percent change of the row (infinite when count1
\* is 0), the magnitude is 'slightly' iff p < 10, 'moderately' iff
\* 10 <= p < 30, 'significantly' iff 30 <= p < 50, 'dramatically' iff
\* p >= 50.
C8_MagnitudeBands ==
    summary # NoSummary =>
       LET change == 100 * Abs(row.period2 - row.period1)
           base == row.period1
       IN summary.magnitude =
             IF base = 0 THEN "dramatically"
             ELSE IF change < 10 * base THEN "slightly"
             ELSE IF change < 30 * base THEN "moderately"
             ELSE IF change < 50 * base THEN "significantly"
             ELSE "dramatically"

C8_Witness ==
    /\ row.period1 = 100
    /\ row.period2 = 150
    /\ summary.magnitude = "dramatically"
    /\ summary.percent_change = Finite(5000, 100)

----------------------------------------------------------------------------
(* Report store: properties *)

Reports(s) == session_state[s].reports

\* What a fresh load_reports() of the file would return equals the session's
\* in-memory sequence.
InSync(s) ==
    /\ session_state[s].has
    /\ file.kind \in {"absent", "json"}
    /\ load_reports(file, TRUE).value = Reports(s)

\* Python's `not title.strip()`: empty or whitespace only.
IsBlank(title) == \A i \in 1..Len(title) : title[i] = " "

\* new is old with the element at 0-based position idx removed.
IsRemoval(old, new, idx) ==
    /\ idx < Len(old)
    /\ Len(new) = Len(old) - 1
    /\ \A j \in 1..Len(new) : new[j] = IF j <= idx THEN old[j] ELSE old[j + 1]

C2_BlankTitleRejected ==
    [][ \A form \in Forms :
          SaveReportSection("A", form) =>
             IF IsBlank(form.title)
             THEN /\ session_state' = session_state
                  /\ file' = file
                  /\ screen'["A"] = TitleError
             ELSE Reports("A")' = Append(Reports("A"), new_report(form)) ]_vars

C4_StorageFailureReported == screen["A"].kind # "exception"

\* C10: last write wins.  A session that holds 'reports' never takes
\* records from the file again: each run leaves its sequence alone, appends
\* one new record to it or removes one record from it; and a run that
\* changes the sequence without raising leaves the file holding exactly
\* that session's sequence, whatever the file held before.
C10_LastWriteWins ==
    [][ \A s \in Sessions :
          session_state[s].has =>
             /\ session_state'[s].has
             /\ \/ Reports(s)' = Reports(s)
                \/ \E form \in RaceForms :
                      Reports(s)' = Append(Reports(s), new_report(form))
                \/ \E idx \in 0..MaxRaceReports :
                      IsRemoval(Reports(s), Reports(s)', idx)
             /\ (Reports(s)' # Reports(s) /\ screen'[s].kind # "exception")
                   => file' = JsonFile(Reports(s)') ]_vars

\* The lost update: A's save succeeded, then B's, and the file no longer
\* holds the record A appended.
C10_LostUpdate ==
    /\ screen["A"] = Success
    /\ screen["B"] = Success
    /\ last_run = Event("B", "save", 0)
    /\ file.kind = "json"
    /\ StoreSize("A") >= 1
    /\ \A i \in 1..Len(file.text) :
          json_load(file.text)[i] # Reports("A")[StoreSize("A")]

====
